---------------------------- MODULE Spec2Model ----------------------------
(***************************************************************************)
(* Model of the texture atlas manager of AscendingLibraries                *)
(* (graphics/src/atlas_set.rs, atlas_set/atlas.rs, atlas_set/migration.rs, *)
(* atlas/allocator.rs).                                                    *)
(*                                                                         *)
(* One AtlasSet is modelled.  Its fields are the variables; every public   *)
(* method is one action that runs the whole method, private helpers        *)
(* (allocate, grow, migrate_reallocate, add_empty_layer) included.  The    *)
(* helpers are operators over a record `s` holding the fields of `self`;   *)
(* an action commits the record it ends with.                              *)
(*                                                                         *)
(* The rectangle packer (crate guillotiere) is outside the repository.  It *)
(* is modelled as a first-fit packer over a Size x Size grid: allocate     *)
(* returns the first free position in row-major order, deallocate frees    *)
(* exactly the rectangle, clear frees everything.                          *)
(***************************************************************************)
EXTENDS Integers, Sequences, FiniteSets, TLC

(* ------------------------------ bounds -------------------------------- *)

\* Side of one texture layer, in grid cells (AtlasSet::size).
Size == 2
\* Keys 1..NumKeys are the caller-supplied keys U.
NumKeys == 3
\* Cap on layers.len() (a guard of the actions that add a layer).
LayerCap == 2
\* A layer's deallocation counter is followed up to this many deallocations
\* past deallocations_limit (a guard of the actions).
MaxOver == 0
\* Largest width/height a caller asks for (Size + 1 is an oversized request).
MaxReq == 3

Keys == 1..NumKeys
\* Slab indices that can occur: at most one live entry per key.
Ids == 0..(NumKeys - 1)
\* The Data payload handed to upload; the model derives it from the key.
DataOf(k) == 10 + k
\* Data::default().
DefaultData == 0

\* Requested (width, height) pairs.
Dims == {<<Size, 1>>, <<Size, Size>>, <<MaxReq, 1>>}

(* --------------------------- small helpers ---------------------------- *)

SetMin(S) == CHOOSE m \in S : \A n \in S : m <= n

SeqToSet(q) == {q[i] : i \in 1..Len(q)}

\* Function f without the point d.
Without(f, d) == [i \in (DOMAIN f) \ {d} |-> f[i]]

\* Function f with f[d] set to v (d added to the domain when absent).
With(f, d, v) == [i \in (DOMAIN f) \cup {d} |-> IF i = d THEN v ELSE f[i]]

NoRect == [x |-> 0, y |-> 0, w |-> 0, h |-> 0]

(* ---------------- guillotiere::AtlasAllocator (external) --------------- *)

Overlap(a, b) ==
    /\ a.x < b.x + b.w
    /\ b.x < a.x + a.w
    /\ a.y < b.y + b.h
    /\ b.y < a.y + a.h

RectAt(p, w, h) == [x |-> p % Size, y |-> p \div Size, w |-> w, h |-> h]

InLayer(r) == r.x + r.w <= Size /\ r.y + r.h <= Size

\* A packer that hands out occupied space.
PackerFitsAnywhere(rects, r) == InLayer(r)

PackerFits(rects, r) == InLayer(r) /\ \A q \in rects : ~Overlap(r, q)

\* The free positions for a w x h rectangle.
PackerFree(rects, w, h) ==
    {p \in 0..(Size * Size - 1) : PackerFits(rects, RectAt(p, w, h))}

(* ------------------------- atlas/allocator.rs ------------------------- *)

\* Allocator::new
AllocatorNew == [rects |-> {}, allocations |-> 0, deallocations |-> 0]

\* Allocator::allocate: [ok, rect, a] (a is the allocator afterwards).
AllocatorAllocate(a, w, h) ==
    LET free == PackerFree(a.rects, w, h) IN
    IF free = {}
    THEN [ok |-> FALSE, rect |-> NoRect, a |-> a]
    ELSE LET r == RectAt(SetMin(free), w, h) IN
         [ok |-> TRUE, rect |-> r,
          a |-> [a EXCEPT !.rects = @ \cup {r}, !.allocations = @ + 1]]

\* Allocator::clear
AllocatorClear(a) == AllocatorNew

\* A deallocate that frees the rectangle without counting it.
AllocatorDeallocateUncounted(a, r) ==
    [rects |-> a.rects \ {r},
     allocations |-> IF a.allocations > 0 THEN a.allocations - 1 ELSE 0,
     deallocations |-> a.deallocations]

\* Allocator::deallocate (saturating_sub on allocations).
AllocatorDeallocate(a, r) ==
    [rects |-> a.rects \ {r},
     allocations |-> IF a.allocations > 0 THEN a.allocations - 1 ELSE 0,
     deallocations |-> a.deallocations + 1]

(* ------------------------- atlas_set/atlas.rs ------------------------- *)

\* Atlas::new
AtlasNew == [allocator |-> AllocatorNew, allocated |-> <<>>, migrating |-> FALSE]

\* Atlas::insert_index: IndexSet::insert keeps the first position of an index.
AtlasInsertIndex(layer, id) ==
    IF id \in SeqToSet(layer.allocated)
    THEN layer
    ELSE [layer EXCEPT !.allocated = Append(@, id)]

\* IndexSet::swap_remove: the last element takes the removed one's place.
SwapRemove(q, id) ==
    IF id \notin SeqToSet(q)
    THEN q
    ELSE LET i == CHOOSE j \in 1..Len(q) : q[j] = id
             n == Len(q)
         IN  IF i = n
             THEN SubSeq(q, 1, n - 1)
             ELSE [j \in 1..(n - 1) |-> IF j = i THEN q[n] ELSE q[j]]

\* A clear that resets the allocator but not the tracking set and the flag.
AtlasClearAllocatorOnly(layer) == [layer EXCEPT !.allocator = AllocatorClear(@)]

\* Atlas::clear
AtlasClear(layer) ==
    [allocator |-> AllocatorClear(layer.allocator),
     allocated |-> <<>>,
     migrating |-> FALSE]

\* Atlas::deallocate
AtlasDeallocate(layer, id, r) ==
    [layer EXCEPT !.allocated = SwapRemove(@, id),
                  !.allocator = AllocatorDeallocate(@, r)]

\* Atlas::start_migration
AtlasStartMigration(layer) == [layer EXCEPT !.migrating = TRUE]


(* ------------------------------ state --------------------------------- *)

VARIABLES
    layers,         \* AtlasSet::layers: sequence of Atlas, layer i is layers[i + 1]
    store,          \* AtlasSet::store: slab index -> (Allocation, key), live slots only
    slab_next,      \* the slab's chain of vacant slots, next slot to reuse first
    lookup,         \* AtlasSet::lookup: key -> slab index
    cache,          \* AtlasSet::cache: LRU order, least recently used first, with refcounts
    last_used,      \* AtlasSet::last_used
    migration,      \* AtlasSet::migration: Option<MigrationTask>
    texture,        \* depth_or_array_layers of AtlasSet::texture
    use_ref_count,  \* AtlasSet::use_ref_count
    max_layers,     \* AtlasSet::max_layers
    deallocations_limit, \* AtlasSet::deallocations_limit
    watch,          \* the methods whose calls the history variables record
    op,             \* history: the last watched call, its method and arguments
    ret,            \* history: what that call returned
    gpu,            \* history: what that call wrote, recorded and submitted on the GPU
    evicted         \* history: the indices that call's allocate evicted

config == <<use_ref_count, max_layers, deallocations_limit, watch>>
fields == <<layers, store, slab_next, lookup, cache, last_used, migration, texture>>
vars == <<layers, store, slab_next, lookup, cache, last_used, migration, texture,
          use_ref_count, max_layers, deallocations_limit, watch, op, ret, gpu,
          evicted>>

\* `self`, as a record the helper operators take and return.
Self ==
    [layers |-> layers, store |-> store, slab_next |-> slab_next,
     lookup |-> lookup, cache |-> cache, last_used |-> last_used,
     migration |-> migration, texture |-> texture]

\* Option<MigrationTask>::None and Some(task).
NoTask == [some |-> FALSE, migrating |-> <<>>, avaliable |-> <<>>]
SomeTask(m, a) == [some |-> TRUE, migrating |-> m, avaliable |-> a]

\* Return values.
\* writes: queue().write_texture calls; recorded: the copies put in defragment's
\* command encoder; copies: the copies submitted to the queue.
NoGpu == [writes |-> {}, recorded |-> <<>>, copies |-> {}]
NoAlloc == [rect |-> NoRect, layer |-> 0, data |-> DefaultData]

\* Return values: tag and value, and the Allocation for the calls that return one.
RetNone == [tag |-> "None", val |-> 0, alloc |-> NoAlloc]
RetSome(v) == [tag |-> "Some", val |-> v, alloc |-> NoAlloc]
RetSomeAlloc(v, a) == [tag |-> "Some", val |-> v, alloc |-> a]
RetUnit == [tag |-> "Unit", val |-> 0, alloc |-> NoAlloc]
\* An Ok that reports false whatever was done.
RetOkFalse(b) == [tag |-> "Ok", val |-> 0, alloc |-> NoAlloc]
RetOk(b) == [tag |-> "Ok", val |-> IF b THEN 1 ELSE 0, alloc |-> NoAlloc]
RetErr(e) == [tag |-> "Err", val |-> e, alloc |-> NoAlloc]

\* GraphicsError, as numbers.
AtlasMaxLayers == 1
DefragFailed == 2

\* The Allocation stored in slot id.
AllocationOf(s, id) ==
    [rect |-> s.store[id].rect, layer |-> s.store[id].layer, data |-> s.store[id].data]

(* ---------------------------- lru::LruCache ---------------------------- *)

CacheIds(c) == {c[i].id : i \in 1..Len(c)}

CacheRc(c, id) == LET i == CHOOSE j \in 1..Len(c) : c[j].id = id IN c[i].rc

\* A pop that leaves the entry in the cache.
CacheKeep(c, id) == c

\* LruCache::pop: the cache without the entry of id.
CachePop(c, id) == SelectSeq(c, LAMBDA e : e.id # id)

\* LruCache::push on an unbounded cache: the entry becomes the most recent.
CachePush(c, id, rc) == Append(CachePop(c, id), [id |-> id, rc |-> rc])

\* LruCache::promote: most recent if present, nothing otherwise.
CachePromote(c, id) ==
    IF id \in CacheIds(c) THEN CachePush(c, id, CacheRc(c, id)) ELSE c

(* ------------------------------ slab::Slab ----------------------------- *)

\* A slab that hands out slot 0 every time.
SlabKeyZero(s) == 0

\* Slab::insert: the slot the next insert takes.
SlabKey(s) ==
    IF s.slab_next # <<>> THEN Head(s.slab_next)
    ELSE Cardinality(DOMAIN s.store)

SlabInsert(s, entry) ==
    [s EXCEPT !.store = With(@, SlabKey(s), entry),
              !.slab_next = IF @ # <<>> THEN Tail(@) ELSE @]

\* Slab::remove of an occupied slot: the slot heads the vacant chain.
SlabRemove(s, id) ==
    [s EXCEPT !.store = Without(@, id),
              !.slab_next = <<id>> \o @]

(* --------------------------- AtlasSet::remove -------------------------- *)

\* Saturating decrement of a refcount.
SaturatingSub1(n) == IF n > 0 THEN n - 1 ELSE 0

\* The tail of remove / remove_by_key once the cache entry is popped and the
\* refcount test passed: key is the key erased from lookup.
RemoveEntry(s, id, key) ==
    LET e  == s.store[id]
        s1 == SlabRemove(s, id)
        s2 == [s1 EXCEPT !.last_used = @ \ {id},
                         !.lookup = IF key \in DOMAIN @ THEN Without(@, key) ELSE @]
    IN  IF e.layer >= Len(s2.layers)
        THEN [s |-> s2, some |-> FALSE, layer |-> 0]
        ELSE [s |-> [s2 EXCEPT !.layers[e.layer + 1] =
                                   AtlasDeallocate(@, id, e.rect)],
              some |-> TRUE, layer |-> e.layer]

\* A remove that deallocates in layer 0 for an index the cache does not hold.
RemoveUnguarded(s, id) ==
    IF id \notin CacheIds(s.cache)
    THEN [s |-> [s EXCEPT !.layers[1].allocator.deallocations = @ + 1],
          some |-> TRUE, layer |-> 0]
    ELSE RemoveEntry([s EXCEPT !.cache = CachePop(@, id)], id, s.store[id].key)

\* AtlasSet::remove: [s, some, layer] is Some(layer) or None and self afterwards.
Remove(s, id) ==
    IF id \notin CacheIds(s.cache)
    THEN [s |-> s, some |-> FALSE, layer |-> 0]
    ELSE LET refcount == SaturatingSub1(CacheRc(s.cache, id))
             popped   == [s EXCEPT !.cache = CachePop(@, id)]
         IN  IF use_ref_count /\ refcount > 0
             THEN [s |-> [s EXCEPT !.cache = CachePush(@, id, refcount)],
                   some |-> FALSE, layer |-> 0]
             ELSE RemoveEntry(popped, id, s.store[id].key)

\* AtlasSet::remove_by_key
RemoveByKey(s, key) ==
    IF key \notin DOMAIN s.lookup
    THEN [s |-> s, some |-> FALSE, layer |-> 0]
    ELSE LET id == s.lookup[key] IN
         IF id \notin CacheIds(s.cache)
         THEN [s |-> s, some |-> FALSE, layer |-> 0]
         ELSE LET refcount == SaturatingSub1(CacheRc(s.cache, id))
                  popped   == [s EXCEPT !.cache = CachePop(@, id)]
              IN  IF use_ref_count /\ refcount > 0
                  THEN [s |-> [s EXCEPT !.cache = CachePush(@, id, refcount)],
                        some |-> FALSE, layer |-> 0]
                  ELSE RemoveEntry(popped, id, key)

(* -------------------------- AtlasSet::allocate ------------------------- *)

\* Result of allocate: self afterwards and Option<Allocation>.
AllocNone(s) == [s |-> s, ok |-> FALSE, alloc |-> NoAlloc]
AllocSome(s, r, l, data) ==
    [s |-> s, ok |-> TRUE, alloc |-> [rect |-> r, layer |-> l, data |-> data]]

\* Allocator::allocate on layer l of s.
LayerAllocate(s, l, w, h) == AllocatorAllocate(s.layers[l + 1].allocator, w, h)

\* self after layer l's allocator became a.
SetAllocator(s, l, a) == [s EXCEPT !.layers[l + 1].allocator = a]

\* The layers the scan of existing layers may allocate from.
ScanCandidates(s, w, h) ==
    {l \in 0..(Len(s.layers) - 1) :
        /\ ~s.layers[l + 1].migrating
        /\ LayerAllocate(s, l, w, h).ok}

\* The scan taking the last layer that has room.
LastFit(fit) == CHOOSE m \in fit : \A n \in fit : m >= n

\* The layer the scan returns from: the first one, in index order, that has room.
FirstFit(fit) == SetMin(fit)

\* "Add a new layer": the layer-limit test.
AtLayerLimit(s) == Len(s.layers) + 1 = max_layers

\* The new-layer step of allocate.
AllocateNewLayer(s, w, h, data) ==
    IF AtLayerLimit(s)
    THEN AllocNone(s)
    ELSE LET a == AllocatorAllocate(AtlasNew.allocator, w, h) IN
         IF ~a.ok
         THEN AllocNone(s)
         ELSE LET l  == Len(s.layers)
                  s1 == [s EXCEPT !.layers = Append(@, [AtlasNew EXCEPT !.allocator = a.a])]
                  s2 == IF s1.migration.some
                        THEN [s1 EXCEPT !.migration.avaliable = Append(@, l)]
                        ELSE s1
              IN  AllocSome(s2, a.rect, l, data)

\* The eviction loop evicting whatever is least recently used.
EvictAny(s, id) == TRUE

\* Whether the eviction loop may evict the least recently used id.
Evictable(s, id) == id \notin s.last_used

\* Eviction in both modes.
EvictionAlways == TRUE

\* Whether allocate enters the eviction loop at all.
EvictionEnabled == ~use_ref_count

\* The most recently used entry taken for the least recently used one.
PeekMru(c) == c[Len(c)].id

\* cache.peek_lru(): the id of the least recently used entry.
PeekLru(c) == c[1].id

\* The eviction loop.  res is "some" (allocated), "break" (go on to the
\* new-layer step) or "none" (allocate returns None).
RECURSIVE EvictLoop(_, _, _, _)
EvictLoop(s, w, h, data) ==
    IF s.cache = <<>>
    THEN [s |-> s, res |-> "none", alloc |-> NoAlloc]
    ELSE LET id == PeekLru(s.cache) IN
         IF ~Evictable(s, id)
         THEN [s |-> s, res |-> "break", alloc |-> NoAlloc]
         ELSE LET r == Remove(s, id) IN
              IF ~r.some
              THEN EvictLoop(r.s, w, h, data)
              ELSE IF r.layer >= Len(r.s.layers)
              THEN [s |-> r.s, res |-> "none", alloc |-> NoAlloc]
              ELSE LET a == LayerAllocate(r.s, r.layer, w, h) IN
                   IF a.ok
                   THEN [s |-> SetAllocator(r.s, r.layer, a.a), res |-> "some",
                         alloc |-> [rect |-> a.rect, layer |-> r.layer, data |-> data]]
                   ELSE EvictLoop(r.s, w, h, data)

\* No request is refused for its size.
NeverTooLarge(w, h) == FALSE

\* The size test allocate starts with.
TooLarge(w, h) == w > Size \/ h > Size

\* AtlasSet::allocate
Allocate(s, w, h, data) ==
    IF TooLarge(w, h)
    THEN AllocNone(s)
    ELSE LET fit == ScanCandidates(s, w, h) IN
         IF fit # {}
         THEN LET l == FirstFit(fit)
                  a == LayerAllocate(s, l, w, h)
              IN  AllocSome(SetAllocator(s, l, a.a), a.rect, l, data)
         ELSE IF EvictionEnabled
         THEN LET e == EvictLoop(s, w, h, data) IN
              CASE e.res = "some"  -> [s |-> e.s, ok |-> TRUE, alloc |-> e.alloc]
                [] e.res = "none"  -> AllocNone(e.s)
                [] e.res = "break" -> AllocateNewLayer(e.s, w, h, data)
         ELSE AllocateNewLayer(s, w, h, data)

\* AtlasSet::grow: a texture of layers.len() layers replaces the old one.
Grow(s, amount) ==
    IF amount = 0 THEN s ELSE [s EXCEPT !.texture = Len(s.layers)]

(* ------------------------------ actions -------------------------------- *)

\* An action ends by storing self.
Commit(s) ==
    /\ layers' = s.layers
    /\ store' = s.store
    /\ slab_next' = s.slab_next
    /\ lookup' = s.lookup
    /\ cache' = s.cache
    /\ last_used' = s.last_used
    /\ migration' = s.migration
    /\ texture' = s.texture

\* The number of layers the model lets the atlas reach: where the max_layers
\* test of the code stops the growth later than LayerCap, the code's own stop.
LayersBound == IF max_layers - 1 > LayerCap THEN max_layers - 1 ELSE LayerCap

\* The counters that grow without bound are capped to keep the state space finite.
CountersBounded(s) ==
    /\ Len(s.layers) <= LayersBound
    /\ \A i \in 1..Len(s.layers) :
          s.layers[i].allocator.deallocations <= deallocations_limit + MaxOver

\* The history of a call of method `name` that returned r and submitted g to
\* the GPU queue.  A _by_key or _with_alloc variant is recorded under the name
\* of the method it mirrors; a call of a method that is not watched is
\* recorded as "other", without its result.
Method(name) ==
    CASE name = "upload_with_alloc" -> "upload"
      [] name = "get_by_key"        -> "get"
      [] name = "promote_by_key"    -> "promote"
      [] name = "remove_by_key"     -> "remove"
      [] OTHER                      -> name

\* Whether a method takes a key (U) or a slab index.
By(name) ==
    IF name \in {"upload", "upload_with_alloc", "set_alloc", "get_by_key",
                 "promote_by_key", "remove_by_key"}
    THEN "key" ELSE "id"

\* A call: the method, its key or index argument (key, of the kind `by`) and the
\* width and height it asks for (0 when it takes none).
Call(name, key, w, h) ==
    [name |-> Method(name), key |-> key, by |-> By(name), w |-> w, h |-> h]

ReturnsFor(name, key, w, h, r, g, ev) ==
    /\ UNCHANGED config
    /\ IF Method(name) \in watch
       THEN op' = Call(name, key, w, h) /\ ret' = r /\ gpu' = g /\ evicted' = ev
       ELSE op' = Call("other", 0, 0, 0) /\ ret' = RetUnit /\ gpu' = NoGpu
            /\ evicted' = {}

Returns(name, key, r, g, ev) == ReturnsFor(name, key, 0, 0, r, g, ev)

\* AtlasSet::new on a backend other than Gl (one layer), then the configuration
\* the owner sets through the public fields and with_deallocations_limit.
InitWith(modes, caps, limits, watched) ==
    /\ layers = <<AtlasNew>>
    /\ texture = 1
    /\ store = <<>>
    /\ slab_next = <<>>
    /\ lookup = <<>>
    /\ cache = <<>>
    /\ last_used = {}
    /\ migration = NoTask
    /\ use_ref_count \in modes
    /\ max_layers \in caps
    /\ deallocations_limit \in limits
    /\ watch = watched
    /\ op = Call("new", 0, 0, 0)
    /\ ret = RetUnit
    /\ gpu = NoGpu
    /\ evicted = {}

\* The miss branch of upload / upload_with_alloc / set_alloc, after allocate
\* returned Some(alloc) in state s.
Register(s, nlayers, key, alloc) ==
    LET s1 == Grow(s, Len(s.layers) - nlayers)
        id == SlabKey(s1)
        s2 == SlabInsert(s1, [rect |-> alloc.rect, layer |-> alloc.layer,
                              data |-> alloc.data, key |-> key])
    IN  [s2 EXCEPT !.layers[alloc.layer + 1] = AtlasInsertIndex(@, id),
                   !.lookup = With(@, key, id),
                   !.cache = CachePush(@, id, 1)]

\* A cache hit that counts as a use of the handle.
UploadHitPromotes(s, key) ==
    [s EXCEPT !.cache = CachePromote(@, s.lookup[key]),
              !.last_used = @ \cup {s.lookup[key]}]

\* A cache hit that takes a reference on the handle.
UploadHitCounts(s, key) ==
    [s EXCEPT !.cache = IF s.lookup[key] \in CacheIds(@)
                        THEN [i \in 1..Len(@) |->
                                 IF @[i].id = s.lookup[key]
                                 THEN [@[i] EXCEPT !.rc = @ + 1] ELSE @[i]]
                        ELSE @]

\* What a cache hit on key does to self.
UploadHit(s, key) == s

\* The texture write of upload_allocation.
WriteOf(alloc) == [layer |-> alloc.layer, rect |-> alloc.rect]

\* The texture writes of a miss: set_alloc uploads no bytes.
UploadWrites(name, alloc) == IF name = "set_alloc" THEN {} ELSE {WriteOf(alloc)}

\* The indices allocate evicted between self before (s) and after (t).
Evicted(s, t) == CacheIds(s.cache) \ CacheIds(t.cache)

\* AtlasSet::upload, upload_with_alloc and set_alloc.  The value recorded for
\* upload is that of upload_with_alloc: the index and its Allocation.
Upload(name, key, w, h) ==
    IF key \in DOMAIN lookup
    THEN /\ Commit(UploadHit(Self, key))
         /\ ReturnsFor(name, key, w, h,
                    IF lookup[key] \in DOMAIN store
                    THEN RetSomeAlloc(lookup[key], AllocationOf(Self, lookup[key]))
                    ELSE RetNone,
                    NoGpu, {})
    ELSE LET a == Allocate(Self, w, h, DataOf(key)) IN
         IF ~a.ok
         THEN /\ Commit(a.s)
              /\ CountersBounded(a.s)
              /\ ReturnsFor(name, key, w, h, RetNone, NoGpu, Evicted(Self, a.s))
         ELSE LET s2 == Register(a.s, Len(layers), key, a.alloc) IN
              /\ Commit(s2)
              /\ CountersBounded(s2)
              /\ ReturnsFor(name, key, w, h, RetSomeAlloc(s2.lookup[key], a.alloc),
                         [NoGpu EXCEPT !.writes = UploadWrites(name, a.alloc)],
                         Evicted(Self, a.s))

\* A get that counts as a reference.
TouchCounts(s, id) ==
    [s EXCEPT !.cache = IF id \in CacheIds(@)
                        THEN CachePush(@, id, CacheRc(@, id) + 1) ELSE @,
              !.last_used = @ \cup {id}]

\* What get / get_by_key / promote do to self for the id they touch.
Touch(s, id) ==
    [s EXCEPT !.cache = CachePromote(@, id),
              !.last_used = @ \cup {id}]

\* AtlasSet::get
Get(id) ==
    IF id \in DOMAIN store
    THEN /\ Commit(Touch(Self, id))
         /\ Returns("get", id, RetSomeAlloc(id, AllocationOf(Self, id)), NoGpu, {})
    ELSE /\ Commit(Self)
         /\ Returns("get", id, RetNone, NoGpu, {})

\* AtlasSet::get_by_key
GetByKey(key) ==
    IF key \in DOMAIN lookup /\ lookup[key] \in DOMAIN store
    THEN /\ Commit(Touch(Self, lookup[key]))
         /\ Returns("get_by_key", key,
                    RetSomeAlloc(lookup[key], AllocationOf(Self, lookup[key])),
                    NoGpu, {})
    ELSE /\ Commit(Self)
         /\ Returns("get_by_key", key, RetNone, NoGpu, {})

\* AtlasSet::promote: no test that id is live.
Promote(id) ==
    /\ Commit(Touch(Self, id))
    /\ Returns("promote", id, RetUnit, NoGpu, {})

\* AtlasSet::promote_by_key
PromoteByKey(key) ==
    /\ IF key \in DOMAIN lookup
       THEN Commit(Touch(Self, lookup[key]))
       ELSE Commit(Self)
    /\ Returns("promote_by_key", key, RetUnit, NoGpu, {})

\* AtlasSet::remove as a public call.
RemoveCall(id) ==
    LET r == Remove(Self, id) IN
    /\ Commit(r.s)
    /\ CountersBounded(r.s)
    /\ Returns("remove", id, IF r.some THEN RetSome(r.layer) ELSE RetNone, NoGpu, {})

\* AtlasSet::remove_by_key as a public call.
RemoveByKeyCall(key) ==
    LET r == RemoveByKey(Self, key) IN
    /\ Commit(r.s)
    /\ CountersBounded(r.s)
    /\ Returns("remove_by_key", key,
               IF r.some THEN RetSome(r.layer) ELSE RetNone, NoGpu, {})

\* AtlasSet::trim
Trim ==
    /\ Commit([Self EXCEPT !.last_used = {}])
    /\ Returns("trim", 0, RetUnit, NoGpu, {})

\* What AtlasSet::clear does to one layer: only the allocator is cleared.
ClearLayer(layer) == [layer EXCEPT !.allocator = AllocatorClear(@)]

\* A clear that also drops every layer but the first.
ClearTruncates ==
    /\ Commit([Self EXCEPT
                 !.layers = <<ClearLayer(layers[1])>>,
                 !.store = <<>>,
                 !.slab_next = <<>>,
                 !.lookup = <<>>,
                 !.cache = <<>>,
                 !.last_used = {}])
    /\ Returns("clear", 0, RetUnit, NoGpu, {})

\* AtlasSet::clear
Clear ==
    /\ Commit([Self EXCEPT
                 !.layers = [i \in 1..Len(layers) |-> ClearLayer(layers[i])],
                 !.store = <<>>,
                 !.slab_next = <<>>,
                 !.lookup = <<>>,
                 !.cache = <<>>,
                 !.last_used = {}])
    /\ Returns("clear", 0, RetUnit, NoGpu, {})

(* ----------------------- atlas_set/migration.rs ------------------------ *)

\* An add_empty_layer that does not list the new layer in the task.
AddEmptyLayerUnlisted(s, task) ==
    IF AtLayerLimit(s)
    THEN [s |-> s, task |-> task, ok |-> FALSE, layer |-> 0]
    ELSE [s |-> [s EXCEPT !.layers = Append(@, AtlasNew)],
          task |-> task, ok |-> TRUE, layer |-> Len(s.layers)]

\* add_empty_layer: [s, task, ok, layer]; Err(AtlasMaxLayers) when ~ok.
AddEmptyLayer(s, task) ==
    IF AtLayerLimit(s)
    THEN [s |-> s, task |-> task, ok |-> FALSE, layer |-> 0]
    ELSE [s |-> [s EXCEPT !.layers = Append(@, AtlasNew)],
          task |-> [task EXCEPT !.avaliable = Append(@, Len(s.layers))],
          ok |-> TRUE, layer |-> Len(s.layers)]

\* The (id, allocation) pairs gathered from the layer being drained.
Gather(s, mid) ==
    IF mid >= Len(s.layers)
    THEN <<>>
    ELSE LET ids  == s.layers[mid + 1].allocated
             live == SelectSeq(ids, LAMBDA id : id \in DOMAIN s.store)
         IN  [i \in 1..Len(live) |-> [id |-> live[i], alloc |-> AllocationOf(s, live[i])]]

\* The layers of task.avaliable, in order, that exist and have room.
AvailableFits(s, task, w, h) ==
    SelectSeq(task.avaliable,
              LAMBDA l : l < Len(s.layers) /\ LayerAllocate(s, l, w, h).ok)

\* The destination chosen among the layers that have room.
PickAvailable(fits) == Head(fits)

\* A relocation that loses the payload.
RelocatedBlank(old, r, l) == [rect |-> r, layer |-> l, data |-> DefaultData]

\* The Allocation migrate_reallocate builds for a handle placed at rect r of
\* layer l: the payload is carried over from the old Allocation.
Relocated(old, r, l) == [rect |-> r, layer |-> l, data |-> old.data]

\* The loop 'outer of migrate_reallocate over the gathered pairs.
\* [s, task, err, migrated]; err = 0 when the loop ran to its end.
RECURSIVE PlaceAll(_, _, _, _)
PlaceAll(s, task, todo, migrated) ==
    IF todo = <<>>
    THEN [s |-> s, task |-> task, err |-> 0, migrated |-> migrated]
    ELSE LET id   == Head(todo).id
             old  == Head(todo).alloc
             w    == old.rect.w
             h    == old.rect.h
             fits == AvailableFits(s, task, w, h)
         IN  IF fits # <<>>
             THEN LET l == PickAvailable(fits)
                      a == LayerAllocate(s, l, w, h)
                  IN  PlaceAll(SetAllocator(s, l, a.a), task, Tail(todo),
                               Append(migrated,
                                      [id |-> id, alloc |-> Relocated(old, a.rect, l)]))
             ELSE LET n == AddEmptyLayer(s, task) IN
                  IF ~n.ok
                  THEN [s |-> s, task |-> task, err |-> AtlasMaxLayers,
                        migrated |-> migrated]
                  ELSE LET a == LayerAllocate(n.s, n.layer, w, h) IN
                       IF ~a.ok
                       THEN [s |-> n.s, task |-> n.task, err |-> DefragFailed,
                             migrated |-> migrated]
                       ELSE PlaceAll(SetAllocator(n.s, n.layer, a.a), n.task,
                                     Tail(todo),
                                     Append(migrated,
                                            [id |-> id,
                                             alloc |-> Relocated(old, a.rect, n.layer)]))

\* migrate_reallocate: [s, task, err, migrated].
MigrateReallocate(s, task) ==
    LET first == IF task.avaliable = <<>>
                 THEN AddEmptyLayer(s, task)
                 ELSE [s |-> s, task |-> task, ok |-> TRUE, layer |-> 0]
    IN  IF ~first.ok
        THEN [s |-> s, task |-> task, err |-> AtlasMaxLayers, migrated |-> <<>>]
        ELSE IF first.task.migrating = <<>>
        THEN [s |-> first.s, task |-> first.task, err |-> DefragFailed,
              migrated |-> <<>>]
        ELSE LET n    == Len(first.task.migrating)
                 mid  == first.task.migrating[n]
                 t1   == [first.task EXCEPT !.migrating = SubSeq(@, 1, n - 1)]
                 p    == PlaceAll(first.s, t1, Gather(first.s, mid), <<>>)
             IN  IF p.err # 0
                 THEN p
                 ELSE IF mid >= Len(p.s.layers)
                 THEN [p EXCEPT !.err = DefragFailed,
                                !.task.avaliable = Append(@, mid)]
                 ELSE [p EXCEPT !.task.avaliable = Append(@, mid),
                                !.s.layers[mid + 1] = AtlasClear(@)]

\* migrate_allocation: the copy command recorded in the encoder.
MigrateAllocation(old, new) ==
    [src |-> [layer |-> old.layer, x |-> old.rect.x, y |-> old.rect.y],
     dst |-> [layer |-> new.layer, x |-> new.rect.x, y |-> new.rect.y],
     w |-> new.rect.w, h |-> new.rect.h]

(* -------------------------- AtlasSet::defragment ----------------------- *)

\* The loop reports an error after it rewrote the first handle.
ApplyThenFail(s, migrated, encoder) ==
    IF migrated = <<>>
    THEN [s |-> s, err |-> 0, encoder |-> encoder]
    ELSE LET id  == Head(migrated).id
             new == Head(migrated).alloc
         IN  [s |-> [s EXCEPT !.store[id].rect = new.rect,
                              !.store[id].layer = new.layer,
                              !.store[id].data = new.data],
              err |-> DefragFailed, encoder |-> encoder]

\* The loop of defragment over the migrated pairs: [s, err, encoder].
RECURSIVE ApplyMigrated(_, _, _)
ApplyMigrated(s, migrated, encoder) ==
    IF migrated = <<>>
    THEN [s |-> s, err |-> 0, encoder |-> encoder]
    ELSE LET id  == Head(migrated).id
             new == Head(migrated).alloc
         IN  IF id \notin DOMAIN s.store
             THEN [s |-> s, err |-> DefragFailed, encoder |-> encoder]
             ELSE LET old == AllocationOf(s, id)
                      s1  == [s EXCEPT !.store[id].rect = new.rect,
                                       !.store[id].layer = new.layer,
                                       !.store[id].data = new.data,
                                       !.layers[new.layer + 1] = AtlasInsertIndex(@, id)]
                  IN  ApplyMigrated(s1, Tail(migrated),
                                    Append(encoder, MigrateAllocation(old, new)))

\* The commands of defragment's encoder that reach the queue: the encoder is
\* dropped at the end of the call, queue().submit(encoder.finish()) is not called.
DefragSubmitted(encoder) == {}

\* `total` of the idle branch: the inspect adapter is dropped without being
\* iterated, so its closure never runs and total keeps its initial value.
InspectTotal(s) == 0

\* Whether layer i is at or over the deallocation limit.
OverLimit(s, i) == s.layers[i + 1].allocator.deallocations >= deallocations_limit

\* The partition of the idle branch (the loop over layers.iter_mut().enumerate()).
Partition(s) ==
    LET idx  == [i \in 1..Len(s.layers) |-> i - 1]
        mig  == SelectSeq(idx, LAMBDA i : OverLimit(s, i))
        ava  == SelectSeq(idx, LAMBDA i : ~OverLimit(s, i))
        s1   == [s EXCEPT !.layers =
                    [i \in 1..Len(s.layers) |->
                        IF OverLimit(s, i - 1) THEN AtlasStartMigration(s.layers[i])
                        ELSE s.layers[i]]]
    IN  IF mig # <<>>
        THEN [s1 EXCEPT !.migration = SomeTask(mig, ava)]
        ELSE s1

\* AtlasSet::defragment.  The results of migrate_reallocate (m) and of the loop
\* over the migrated pairs (ap) are bound once, as the only element of a set.
Defragment ==
    IF migration.some
    THEN \E m \in {MigrateReallocate([Self EXCEPT !.migration = NoTask], migration)} :
         IF m.err # 0
         THEN /\ Commit(m.s)
              /\ CountersBounded(m.s)
              /\ Returns("defragment", 0, RetErr(m.err), NoGpu, {})
         ELSE \E ap \in {ApplyMigrated(Grow(m.s, Len(m.s.layers) - Len(layers)),
                                        m.migrated, <<>>)} :
              IF ap.err # 0
              THEN /\ Commit(ap.s)
                   /\ Returns("defragment", 0, RetErr(ap.err), NoGpu, {})
              ELSE /\ CountersBounded(ap.s)
                   /\ Commit(IF m.task.migrating # <<>>
                             THEN [ap.s EXCEPT !.migration = m.task]
                             ELSE ap.s)
                   /\ Returns("defragment", 0, RetOk(TRUE),
                              [writes |-> {}, recorded |-> ap.encoder,
                               copies |-> DefragSubmitted(ap.encoder)],
                              {})
    ELSE /\ IF InspectTotal(Self) = 0
            THEN Commit(Self)
            ELSE Commit(Partition(Self))
         /\ Returns("defragment", 0, RetOk(FALSE), NoGpu, {})

\* The partition of defragment's idle branch, entered from outside defragment:
\* behind the total == 0 test defragment never reaches it, and a task comes to
\* exist only when the owner of the AtlasSet fills the public field `migration`
\* and calls Atlas::start_migration on the layers, as that loop would.
QueueMigration ==
    /\ ~migration.some
    /\ \E i \in 0..(Len(layers) - 1) : OverLimit(Self, i)
    /\ Commit(Partition(Self))
    /\ Returns("queue_migration", 0, RetUnit, NoGpu, {})

(* --------------------------- specifications ---------------------------- *)

\* The allocation path on one layer (max_layers = 2 allows no second one):
\* upload, set_alloc, get, promote, remove and trim in both modes, every call
\* watched, deallocations_limit = 2.
AllocWatch == {"upload", "set_alloc", "get", "promote", "remove", "trim"}

InitAlloc == InitWith(BOOLEAN, {2}, {2}, AllocWatch)

NextAlloc ==
    \/ \E name \in {"upload", "set_alloc"}, key \in Keys, d \in Dims :
          Upload(name, key, d[1], d[2])
    \/ \E id \in Ids : Get(id)
    \/ \E key \in Keys : GetByKey(key)
    \/ \E id \in Ids : Promote(id)
    \/ \E key \in Keys : PromoteByKey(key)
    \/ \E id \in Ids : RemoveCall(id)
    \/ \E key \in Keys : RemoveByKeyCall(key)
    \/ Trim

SpecAlloc == InitAlloc /\ [][NextAlloc]_vars

\* Defragmentation: upload, set_alloc, get, remove, trim, clear and defragment
\* with one key fewer, no oversized request and up to LayerCap layers, the
\* defragment calls watched, deallocations_limit = 1.
MigKeys == 1..(NumKeys - 1)
MigIds == 0..(NumKeys - 2)
MigDims == {<<1, 1>>, <<Size, Size>>}
\* The handles that are get-accessed between the defragment calls.
DrawnIds == {0}

Init == InitWith(BOOLEAN, {1, 2, 3}, {1}, {"defragment"})

Next ==
    \/ \E key \in MigKeys, d \in MigDims : Upload("upload", key, d[1], d[2])
    \/ \E key \in MigKeys : Upload("set_alloc", key, 1, 1)
    \/ \E id \in DrawnIds : Get(id)
    \/ \E id \in MigIds : RemoveCall(id)
    \/ Trim
    \/ Clear
    \/ Defragment
    \/ QueueMigration

Spec == Init /\ [][Next]_vars

\* Migration with uploads, removes and clear watched: LRU mode, up to two
\* layers (max_layers = 3), deallocations_limit = 1.
LayersWatch == {"upload", "set_alloc", "remove", "clear"}

InitLayers == InitWith({FALSE}, {3}, {1}, LayersWatch)

NextLayers ==
    \/ \E key \in MigKeys, d \in MigDims : Upload("upload", key, d[1], d[2])
    \/ \E id \in MigIds : RemoveCall(id)
    \/ Clear
    \/ Defragment
    \/ QueueMigration

SpecLayers == InitLayers /\ [][NextLayers]_vars

\* Allocation over up to two layers (max_layers = 3) in both modes, without
\* migration: uploads watched, deallocations_limit = 2.
EvictDims == {<<Size, 1>>, <<Size, Size>>}

InitEvict == InitWith(BOOLEAN, {3}, {2}, {"upload"})

NextEvict ==
    \/ \E key \in Keys, d \in EvictDims : Upload("upload", key, d[1], d[2])
    \/ \E id \in Ids : Get(id)
    \/ \E id \in DrawnIds : RemoveCall(id)
    \/ Trim

SpecEvict == InitEvict /\ [][NextEvict]_vars

\* Migration over up to three layers (max_layers = 4) with whole-layer regions:
\* a task can hold two layers to drain and outlive a defragment call.
DrainDims == {<<Size, Size>>}

InitDrain == InitWith({TRUE}, {4}, {1}, {"defragment"})

NextDrain ==
    \/ \E key \in MigKeys, d \in DrainDims : Upload("upload", key, d[1], d[2])
    \/ \E id \in MigIds : RemoveCall(id)
    \/ Defragment
    \/ QueueMigration

SpecDrain == InitDrain /\ [][NextDrain]_vars

\* Migration after clear(): ref-count mode, up to three layers (max_layers = 4),
\* half-layer and whole-layer regions, no call recorded.
InitStale == InitWith({TRUE}, {4}, {1}, {})

NextStale ==
    \/ \E key \in MigKeys, d \in EvictDims : Upload("upload", key, d[1], d[2])
    \/ \E id \in DrawnIds : RemoveCall(id)
    \/ Clear
    \/ Defragment
    \/ QueueMigration

SpecStale == InitStale /\ [][NextStale]_vars

\* A defragment call that fails half-way: ref-count mode, two layers
\* (max_layers = 3), three keys, half-layer regions.
InitFail == InitWith({TRUE}, {3}, {1}, {"defragment"})

NextFail ==
    \/ \E key \in Keys : Upload("upload", key, Size, 1)
    \/ \E id \in DrawnIds : RemoveCall(id)
    \/ Defragment
    \/ QueueMigration

SpecFail == InitFail /\ [][NextFail]_vars

(* ------------------------------- claims -------------------------------- *)

Live == DOMAIN store

UploadOps == {"upload", "set_alloc"}

\* The layers at or over the deallocation limit.
OverLimitLayers == {i \in 0..(Len(layers) - 1) : OverLimit(Self, i)}

\* The stored region of a live handle: its layer and rectangle.
RegionOf(st, h) == [layer |-> st[h].layer, rect |-> st[h].rect]

\* Handle h of the state before a step is still the same entry after it and
\* the key lookup still leads to it.
StaysResolvable(h) ==
    /\ h \in DOMAIN store'
    /\ store'[h].key = store[h].key
    /\ store[h].key \in DOMAIN lookup'
    /\ lookup'[store[h].key] = h

\* C1: a defragment call made with no task while a layer is at or over
\* deallocations_limit returns Ok(false) and stores a task whose migrating list
\* holds exactly the layers over the limit, flagged migrating, and whose
\* available list holds all the others.
C1_IdleQueues ==
    [][(op'.name = "defragment" /\ ~migration.some /\ OverLimitLayers # {})
         => /\ ret' = RetOk(FALSE)
            /\ migration'.some
            /\ SeqToSet(migration'.migrating) = OverLimitLayers
            /\ SeqToSet(migration'.avaliable) =
                  (0..(Len(layers) - 1)) \ OverLimitLayers
            /\ \A i \in 0..(Len(layers) - 1) :
                  layers'[i + 1].migrating <=> i \in OverLimitLayers]_vars

\* C2 as claimed: in either mode no call other than a remove makes a live
\* handle unresolvable.
C2_NeverUnresolvable ==
    [][op'.name \in {"upload", "set_alloc", "get", "promote", "trim"}
         => \A h \in Live : StaysResolvable(h)]_vars

\* C2 as amended: a live handle stays resolvable over every upload, set_alloc,
\* get, promote and trim call, except that with use_ref_count = false an upload
\* or set_alloc of another key may evict it while it is not in last_used; a
\* remove call makes at most one handle unresolvable.
C2_ResolvableUntilRemoved ==
    [][/\ op'.name \in {"upload", "set_alloc", "get", "promote", "trim"}
          => \A h \in Live :
                \/ StaysResolvable(h)
                \/ /\ ~use_ref_count
                   /\ op'.name \in UploadOps
                   /\ op'.key # store[h].key
                   /\ h \notin last_used
       /\ op'.name = "remove"
          => Cardinality({h \in Live : ~StaysResolvable(h)}) <= 1]_vars

\* A full atlas in ref-count mode refused an upload and kept its unused handles.
C2_Witness ==
    /\ use_ref_count
    /\ op.name = "upload"
    /\ op.key \notin DOMAIN lookup
    /\ ret = RetNone
    /\ Cardinality(Live) = 2
    /\ last_used = {}

\* C3: the eviction loop of allocate (in upload and set_alloc) never removes a
\* handle that is in last_used, that is, get-accessed since the last trim.
C3_UsedNotEvicted ==
    [][op'.name \in UploadOps
         => /\ evicted' \cap last_used = {}
            /\ \A h \in last_used \cap Live :
                  h \in DOMAIN store' /\ store'[h] = store[h]]_vars

\* An upload evicted an unused handle while a get-accessed one stayed.
C3_Witness ==
    /\ op.name \in UploadOps
    /\ evicted # {}
    /\ last_used \cap Live # {}
    /\ ret.tag = "Some"
    /\ ret.val \notin last_used

\* C4: an upload or set_alloc that returns None leaves store, lookup, cache,
\* last_used, the layers and their allocators as they were.
C4_FailureLeavesNoTrace ==
    [][(op'.name \in UploadOps /\ ret' = RetNone)
         => UNCHANGED <<layers, store, slab_next, lookup, cache, last_used>>]_vars

\* C5: no two live handles of one layer overlap and every live region lies
\* inside its layer.
C5_NoOverlapInBounds ==
    /\ \A h \in Live :
          /\ store[h].rect.w >= 1
          /\ store[h].rect.h >= 1
          /\ store[h].rect.x >= 0
          /\ store[h].rect.y >= 0
          /\ InLayer(store[h].rect)
    /\ \A g, h \in Live :
          (g # h /\ store[g].layer = store[h].layer)
             => ~Overlap(store[g].rect, store[h].rect)

\* A defragment call relocated handles and two live handles share a layer.
C5_Witness ==
    /\ op.name = "defragment"
    /\ ret = RetOk(TRUE)
    /\ gpu.recorded # <<>>
    /\ \E g, h \in Live : g # h /\ store[g].layer = store[h].layer

\* C6: an upload or set_alloc of a registered key returns its handle, writes
\* nothing to the texture and changes no field of the atlas.
C6_HitIsIdempotent ==
    [][(op'.name \in UploadOps /\ op'.key \in DOMAIN lookup)
         => /\ UNCHANGED fields
            /\ ret'.tag = "Some"
            /\ ret'.val = lookup[op'.key]
            /\ ret'.alloc = AllocationOf(Self, lookup[op'.key])
            /\ gpu' = NoGpu
            /\ evicted' = {}]_vars

\* An upload hit: the key is registered and nothing was written.
C6_Witness ==
    /\ op.name = "upload"
    /\ op.key \in DOMAIN lookup
    /\ ret.tag = "Some"
    /\ gpu.writes = {}
    /\ Cardinality(Live) >= 2

\* The migrating list of a task, as a set (empty when no task is stored).
MigratingOf(task) == IF task.some THEN SeqToSet(task.migrating) ELSE {}

\* The live handles whose stored region a step changes.
Moved == {h \in Live : h \in DOMAIN store' /\ RegionOf(store', h) # RegionOf(store, h)}

\* C7: a defragment call made while a task exists takes exactly one layer out
\* of task.migrating and changes the region of no handle outside that layer.
C7_OneLayerPerCall ==
    [][(op'.name = "defragment" /\ migration.some)
         => \E l \in MigratingOf(migration) :
               /\ MigratingOf(migration) \ MigratingOf(migration') = {l}
               /\ \A h \in Moved : store[h].layer = l]_vars

\* C8: when defragment returns Ok(true), a copy from the old to the new place
\* of every relocated handle has been submitted to the GPU queue.
C8_CopiesSubmitted ==
    [][(op'.name = "defragment" /\ ret' = RetOk(TRUE))
         => \A h \in Moved :
               MigrateAllocation(AllocationOf(Self, h),
                                 [rect |-> store'[h].rect, layer |-> store'[h].layer,
                                  data |-> store'[h].data]) \in gpu'.copies]_vars

\* C9: a defragment call changes no handle's key, size, payload, refcount or
\* liveness, nor lookup and last_used.
C9_MigrationKeepsIdentity ==
    [][op'.name = "defragment"
         => /\ DOMAIN store' = DOMAIN store
            /\ \A h \in Live :
                  /\ store'[h].key = store[h].key
                  /\ store'[h].data = store[h].data
                  /\ store'[h].rect.w = store[h].rect.w
                  /\ store'[h].rect.h = store[h].rect.h
            /\ lookup' = lookup
            /\ cache' = cache
            /\ slab_next' = slab_next
            /\ last_used' = last_used]_vars

\* A defragment call relocated a handle that is in last_used.
C9_Witness ==
    /\ op.name = "defragment"
    /\ ret = RetOk(TRUE)
    /\ gpu.recorded # <<>>
    /\ last_used \cap Live # {}

\* C10: the number of layers never exceeds max_layers.
C10_LayersWithinMax == Len(layers) <= max_layers

\* A call asks for more than the size of a layer.
Oversize(o) == o.w > Size \/ o.h > Size

\* The watched call of a step is an upload or set_alloc of a key not yet
\* registered (a miss), asking for a size that fits a layer or not.
UploadMiss == op'.name \in UploadOps /\ op'.key \notin DOMAIN lookup

\* C11: an in-size request that finds no room fails only when the atlas holds
\* max_layers layers already: while layers.len() < max_layers a miss never
\* returns None.
C11_FailsOnlyAtMax ==
    [][(UploadMiss /\ ~Oversize(op') /\ ret' = RetNone)
         => Len(layers) >= max_layers]_vars

\* The keys a step registers and the handles it registers them under.
NewKeys == (DOMAIN lookup') \ (DOMAIN lookup)

\* C12: no upload or set_alloc places the region of a new handle in a layer
\* whose migrating flag is set.
C12_NoPlacementInMigrating ==
    [][\A k \in NewKeys :
          LET l == store'[lookup'[k]].layer IN
          l < Len(layers) => ~layers[l + 1].migrating]_vars

\* The slab index a watched get / promote / remove call is about, or -1 when
\* its key is not registered.
TargetOf(o) ==
    IF o.by = "id" THEN o.key
    ELSE IF o.key \in DOMAIN lookup THEN lookup[o.key] ELSE -1

\* C13: remove(h) of a slot that is not occupied and remove_by_key(k) of a key
\* that is not registered return None and change nothing: no layer is
\* deallocated again.
C13_SecondRemoveNoOp ==
    [][(op'.name = "remove" /\ TargetOf(op') \notin Live)
         => ret' = RetNone /\ UNCHANGED fields]_vars

\* A handle that was removed is removed again.
C13_Witness ==
    /\ op.name = "remove"
    /\ op.by = "id"
    /\ op.key \in SeqToSet(slab_next)
    /\ ret = RetNone
    /\ \E i \in 1..Len(layers) : layers[i].allocator.deallocations >= 1

\* C14 as claimed: every upload or set_alloc asking for more than the layer
\* size returns None, evicts nothing and adds no layer.
C14_OversizeAlwaysNone ==
    [][(op'.name \in UploadOps /\ Oversize(op'))
         => ret' = RetNone /\ evicted' = {} /\ Len(layers') = Len(layers)]_vars

\* C14 as amended: an upload or set_alloc asking for more than the layer size
\* changes nothing, evicts nothing and adds no layer; it returns None when the
\* key is not registered, and the handle of the key when it is.
C14_OversizeRefused ==
    [][(op'.name \in UploadOps /\ Oversize(op'))
         => /\ UNCHANGED fields
            /\ evicted' = {}
            /\ gpu' = NoGpu
            /\ IF op'.key \in DOMAIN lookup
               THEN ret'.tag = "Some" /\ ret'.val = lookup[op'.key]
               ELSE ret' = RetNone]_vars

\* An oversized upload was refused in LRU mode with unused handles to evict.
C14_Witness ==
    /\ ~use_ref_count
    /\ op.name \in UploadOps
    /\ Oversize(op)
    /\ ret = RetNone
    /\ Live # {}
    /\ last_used = {}

\* C15: get and get_by_key on a live entry return its region, make it the most
\* recently used with the refcount it had, add it to last_used and change
\* nothing else; on an absent index or key they return None and change nothing.
C15_GetOnlyTouches ==
    [][op'.name = "get"
         => LET id == TargetOf(op') IN
            IF id \in Live
            THEN /\ ret' = RetSomeAlloc(id, AllocationOf(Self, id))
                 /\ cache' = Append(SelectSeq(cache, LAMBDA e : e.id # id),
                                    [id |-> id, rc |-> CacheRc(cache, id)])
                 /\ last_used' = last_used \cup {id}
                 /\ UNCHANGED <<layers, store, slab_next, lookup, migration, texture>>
            ELSE ret' = RetNone /\ UNCHANGED fields]_vars

\* get_by_key promoted an entry over another one.
C15_Witness ==
    /\ op.name = "get"
    /\ op.by = "key"
    /\ ret.tag = "Some"
    /\ Len(cache) >= 2
    /\ cache[Len(cache)].id = ret.val
    /\ ret.val \in last_used

\* C16: lookup[k] = h exactly when slot h is occupied and stores key k.
C16_LookupMatchesStore ==
    /\ \A k \in DOMAIN lookup :
          lookup[k] \in DOMAIN store /\ store[lookup[k]].key = k
    /\ \A h \in DOMAIN store :
          store[h].key \in DOMAIN lookup /\ lookup[store[h].key] = h

\* An upload evicted a handle and took over its slot.
C16_Witness ==
    /\ op.name = "upload"
    /\ ret.tag = "Some"
    /\ ret.val \in evicted
    /\ Cardinality(Live) = 2

\* C17: the cache has exactly one entry for every occupied slot and none for
\* any other index, and every refcount is at least 1.
C17_CacheMatchesStore ==
    /\ CacheIds(cache) = DOMAIN store
    /\ Len(cache) = Cardinality(DOMAIN store)
    /\ \A i \in 1..Len(cache) : cache[i].rc >= 1

\* In ref-count mode a remove freed one of two entries.
C17_Witness ==
    /\ use_ref_count
    /\ op.name = "remove"
    /\ ret.tag = "Some"
    /\ Cardinality(Live) = 1
    /\ Len(cache) = 1

\* C18: last_used holds live handles only.
C18_LastUsedLive == last_used \subseteq DOMAIN store

\* C19: an index that was removed (a vacant slot of the slab) never becomes
\* live again, so get, peek, contains, promote and remove of the old handle
\* keep finding nothing.
C19_StaleStaysAbsent ==
    [][\A h \in SeqToSet(slab_next) : h \notin DOMAIN store']_vars

\* C20: a defragment call that returns Ok(false) changed no handle's region,
\* cleared no layer and added none.
C20_FalseMeansUntouched ==
    [][(op'.name = "defragment" /\ ret' = RetOk(FALSE))
         => /\ Moved = {}
            /\ store' = store
            /\ Len(layers') = Len(layers)
            /\ \A i \in 1..Len(layers) :
                  /\ layers'[i].allocator = layers[i].allocator
                  /\ layers'[i].allocated = layers[i].allocated]_vars

\* defragment returned Ok(false) with live handles and a layer over the limit.
C20_Witness ==
    /\ op.name = "defragment"
    /\ ret = RetOk(FALSE)
    /\ Live # {}
    /\ OverLimitLayers # {}

\* C21: a defragment call that returns Err (AtlasMaxLayers or DefragFailed)
\* leaves the stored region of every live handle as it was before the call, and
\* every live handle still resolves through its key.
C21_ErrKeepsRegions ==
    [][(op'.name = "defragment" /\ ret'.tag = "Err")
         => \A h \in Live :
               /\ h \in DOMAIN store'
               /\ RegionOf(store', h) = RegionOf(store, h)
               /\ StaysResolvable(h)]_vars

\* defragment returned Err while handles were live and a task was queued.
C21_Witness ==
    /\ op.name = "defragment"
    /\ ret.tag = "Err"
    /\ Live # {}
    /\ \E i \in 1..Len(layers) : layers[i].migrating

\* The layer a defragment call on a queued task drains: the last of task.migrating.
DrainedLayer == migration.migrating[Len(migration.migrating)]

\* C22: after a defragment call drained layer L and returned Ok(true), no live
\* handle has its region in L, L's tracking set is empty, its allocation and
\* deallocation counters are 0, its migrating flag is false and, if a task
\* still exists, L is in task.avaliable.
C22_DrainedLayerReset ==
    [][(op'.name = "defragment" /\ ret' = RetOk(TRUE) /\ migration.some
          /\ migration.migrating # <<>>)
         => /\ \A h \in DOMAIN store' : store'[h].layer # DrainedLayer
            /\ layers'[DrainedLayer + 1].allocated = <<>>
            /\ layers'[DrainedLayer + 1].allocator.allocations = 0
            /\ layers'[DrainedLayer + 1].allocator.deallocations = 0
            /\ ~layers'[DrainedLayer + 1].migrating
            /\ migration'.some
                  => DrainedLayer \in SeqToSet(migration'.avaliable)]_vars

\* defragment returned Ok(true), moved a live handle out of the layer it
\* drained, and a task is still queued.
C22_Witness ==
    /\ op.name = "defragment"
    /\ ret = RetOk(TRUE)
    /\ gpu.recorded # <<>>
    /\ migration.some
    /\ Live # {}

\* The owner keeps calling defragment: the calls of SpecDrain under weak
\* fairness of Defragment.
SpecDrainFair == SpecDrain /\ WF_vars(Defragment)

\* C23: defragmentation finishes.  Once a defragment call found no task while
\* some layer was at or over the deallocation limit and returned Ok(false),
\* the defragment calls that follow it (no other call in between, no error)
\* return Ok(true): the layers over the limit are drained.
C23_FalseThenTrue ==
    (op.name = "defragment" /\ ret = RetOk(FALSE) /\ OverLimitLayers # {})
        ~> (op.name # "defragment" \/ ret.tag = "Err" \/ ret = RetOk(TRUE))

\* The existing layers that can hold a w x h request: not migrating, and with a
\* free position for it.
HoldingLayers(w, h) ==
    {l \in 0..(Len(layers) - 1) :
        /\ ~layers[l + 1].migrating
        /\ PackerFree(layers[l + 1].allocator.rects, w, h) # {}}

\* C24: with use_ref_count = true an upload or set_alloc evicts nothing: every
\* live handle keeps its entry, and a miss that fits no existing non-migrating
\* layer either gets the first region of a new layer or fails, leaving the
\* layers as they were.
C24_RefCountNeverEvicts ==
    [][(use_ref_count /\ op'.name \in UploadOps)
         => /\ evicted' = {}
            /\ \A h \in Live : h \in DOMAIN store' /\ store'[h] = store[h]
            /\ (op'.key \notin DOMAIN lookup /\ HoldingLayers(op'.w, op'.h) = {})
                  => \/ /\ ret'.tag = "None"
                        /\ layers' = layers
                     \/ /\ ret'.tag = "Some"
                        /\ Len(layers') = Len(layers) + 1
                        /\ ret'.alloc.layer = Len(layers)]_vars

\* With use_ref_count = true an upload found layer 0 full of unused handles
\* and was placed in a new layer 1: both older handles are still live.
C24_Witness ==
    /\ use_ref_count
    /\ op.name = "upload"
    /\ ret.tag = "Some"
    /\ ret.alloc.layer = 1
    /\ last_used = {}
    /\ Cardinality(Live) = 3
    /\ \A h \in Live \ {ret.val} : store[h].layer = 0

\* C25: a remove / remove_by_key that removes handle h returns h's layer
\* index, erases h from store, lookup, cache, last_used and that layer's
\* tracking set, and raises that layer's deallocation counter by exactly 1;
\* the counters of no other layer change.  In any step a deallocation counter
\* decreases only by being reset to 0 with the allocator of its layer cleared.
C25_RemoveCountsOnce ==
    [][/\ (op'.name = "remove" /\ ret'.tag = "Some")
            => LET h == TargetOf(op')
                   l == store[h].layer
               IN  /\ h \in Live
                   /\ ret'.val = l
                   /\ h \notin DOMAIN store'
                   /\ store[h].key \notin DOMAIN lookup'
                   /\ h \notin CacheIds(cache')
                   /\ h \notin last_used'
                   /\ h \notin SeqToSet(layers'[l + 1].allocated)
                   /\ layers'[l + 1].allocator.deallocations
                         = layers[l + 1].allocator.deallocations + 1
                   /\ Len(layers') = Len(layers)
                   /\ \A i \in 1..Len(layers) :
                         i # l + 1 => layers'[i].allocator = layers[i].allocator
       /\ \A i \in 1..Len(layers) :
             layers'[i].allocator.deallocations < layers[i].allocator.deallocations
                => layers'[i].allocator = AllocatorNew]_vars

\* remove took a handle out of layer 1 while layer 0 held a live handle.
C25_Witness ==
    /\ op.name = "remove"
    /\ ret = RetSome(1)
    /\ Len(layers) = 2
    /\ layers[2].allocator.deallocations = 1
    /\ \E h \in Live : store[h].layer = 0

\* C26: after clear(), in any state (a migration task queued or partly
\* drained included), store, lookup, cache and last_used are empty, every layer
\* has allocation and deallocation counters 0, an empty tracking set and
\* migrating = false, no migration task remains, and the upload that follows,
\* of any size up to the layer size, succeeds.
C26_ClearResetsAll ==
    [][/\ op'.name = "clear"
            => /\ store' = <<>>
               /\ lookup' = <<>>
               /\ cache' = <<>>
               /\ last_used' = {}
               /\ \A i \in 1..Len(layers') : layers'[i] = AtlasNew
               /\ ~migration'.some
       /\ (op.name = "clear" /\ op'.name \in UploadOps /\ ~Oversize(op'))
            => ret'.tag = "Some"]_vars

C28_EmptyCacheAddsLayer ==
    [][(/\ ~use_ref_count
        /\ UploadMiss
        /\ ~Oversize(op')
        /\ cache = <<>>
        /\ HoldingLayers(op'.w, op'.h) = {}
        /\ Len(layers) + 1 < max_layers)
         => /\ ret'.tag = "Some"
            /\ Len(layers') = Len(layers) + 1
            /\ ret'.alloc.layer = Len(layers)]_vars

\* The id of the i-th least recently used cache entry before the step.
LruId(i) == cache[i].id

\* The rectangles left in layer l once the i least recently used handles are
\* removed.
RectsAfter(l, i) ==
    layers[l + 1].allocator.rects
        \ {store[LruId(j)].rect : j \in {k \in 1..i : store[LruId(k)].layer = l}}

\* Whether the request of the step's call fits the layer of the i-th least
\* recently used handle once the first i are removed.
RetryFits(i) ==
    PackerFree(RectsAfter(store[LruId(i)].layer, i), op'.w, op'.h) # {}

\* C29: in LRU mode the handles an upload evicts are the first n entries of the
\* LRU order, none of them in last_used; after each removal the allocation is
\* retried in the layer of the handle just evicted, and the first retry that
\* fits ends the call; the loop goes on while the next LRU entry is not in
\* last_used; a new layer is added only after the loop stopped at an entry
\* that is in last_used.
C29_EvictsInLruOrder ==
    [][(~use_ref_count /\ UploadMiss /\ ~Oversize(op'))
         => LET n == Cardinality(evicted')
                placed == ret'.tag = "Some" /\ Len(layers') = Len(layers)
            IN  /\ n <= Len(cache)
                /\ evicted' = {LruId(i) : i \in 1..n}
                /\ \A i \in 1..n : LruId(i) \notin last_used
                /\ \A i \in 1..(n - 1) : ~RetryFits(i)
                /\ (n >= 1 /\ placed)
                      => /\ RetryFits(n)
                         /\ ret'.alloc.layer = store[LruId(n)].layer
                /\ (n >= 1 /\ ~placed) => ~RetryFits(n)
                /\ (n < Len(cache) /\ LruId(n + 1) \notin last_used) => placed
                /\ Len(layers') > Len(layers)
                      => n < Len(cache) /\ LruId(n + 1) \in last_used]_vars

\* An upload evicted an unused handle, found the next LRU entry in last_used
\* and took the first region of the new layer 1.
C29_Witness ==
    /\ ~use_ref_count
    /\ op.name = "upload"
    /\ ret.tag = "Some"
    /\ evicted # {}
    /\ ret.alloc.layer = 1
    /\ layers[2].allocator.allocations = 1
    /\ layers[2].allocator.deallocations = 0
    /\ last_used # {}

\* C30: when at least one existing non-migrating layer can hold the request of
\* a miss, allocate places the region in the lowest-index such layer, evicts
\* nothing and adds no layer.
C30_LowestFittingLayer ==
    [][(UploadMiss /\ ~Oversize(op') /\ HoldingLayers(op'.w, op'.h) # {})
         => /\ ret'.tag = "Some"
            /\ ret'.alloc.layer \in HoldingLayers(op'.w, op'.h)
            /\ \A l \in HoldingLayers(op'.w, op'.h) : ret'.alloc.layer <= l
            /\ evicted' = {}
            /\ Live \subseteq DOMAIN store'
            /\ Len(layers') = Len(layers)]_vars

\* An upload was placed in layer 0 while layer 1, not migrating, had room for
\* it as well.
C30_Witness ==
    /\ op.name = "upload"
    /\ ret.tag = "Some"
    /\ ret.alloc.layer = 0
    /\ Len(layers) = 2
    /\ ~layers[2].migrating
    /\ PackerFree(layers[2].allocator.rects, op.w, op.h) # {}

\* C31: whenever a migration task is stored, task.migrating is not empty, and
\* task.migrating and task.avaliable together list every layer index exactly
\* once (so they are disjoint), the layers appended by an upload or by the
\* migration while the task is in progress included.
C31_TaskPartitionsLayers ==
    migration.some
        => /\ migration.migrating # <<>>
           /\ Len(migration.migrating) + Len(migration.avaliable) = Len(layers)
           /\ SeqToSet(migration.migrating) \cup SeqToSet(migration.avaliable)
                 = 0..(Len(layers) - 1)

\* A task is still stored after a defragment call that appended a third layer
\* and drained one of the two layers it had to drain.
C31_Witness ==
    /\ migration.some
    /\ op.name = "defragment"
    /\ ret = RetOk(TRUE)
    /\ Len(layers) = 3
    /\ Len(migration.avaliable) = 2

\* C32: after every upload, upload_with_alloc, set_alloc or defragment call,
\* whether it succeeded or failed, the GPU texture array has exactly
\* layers.len() layers.
C32_TextureBacksLayers == texture = Len(layers)

\* The live handles whose stored region is in layer l.
LiveIn(l) == {h \in Live : store[h].layer = l}

\* C33: in every reachable state and for every layer, the allocator's count of
\* held allocations is the number of live handles whose region is in that
\* layer, and every rectangle the allocator holds is the region of one of them.
C33_NoOrphanRectangles ==
    \A l \in 0..(Len(layers) - 1) :
        /\ layers[l + 1].allocator.allocations = Cardinality(LiveIn(l))
        /\ layers[l + 1].allocator.rects = {store[h].rect : h \in LiveIn(l)}

\* C34: in every reachable state, after clear() too, an index is in layer L's
\* tracking set `allocated` exactly when it is a live handle whose stored
\* region lies in layer L.
C34_TrackedIffLiveInLayer ==
    \A l \in 0..(Len(layers) - 1) :
        SeqToSet(layers[l + 1].allocated) = LiveIn(l)

\* C35: a layer's migrating flag is set exactly when a task is stored and the
\* layer's index is in task.migrating; this holds after every public call, a
\* defragment call that returned Err included.
C35_FlagIffListed ==
    \A l \in 0..(Len(layers) - 1) :
        layers[l + 1].migrating <=> l \in MigratingOf(migration)

\* The handle the last call created, when that call was an upload or
\* upload_with_alloc miss: it returned Some and wrote the bytes of the region.
Fresh ==
    IF op.name = "upload" /\ ret.tag = "Some" /\ gpu.writes # {}
    THEN {ret.val} ELSE {}

\* C36: in LRU mode the eviction loop of allocate never removes a handle that
\* an upload created since the last trim(): the upload that directly follows
\* the upload that created a handle does not evict it.
C36_FreshNotEvicted ==
    [][(~use_ref_count /\ op'.name \in UploadOps)
         => evicted' \cap Fresh = {}]_vars

\* C37: the stored refcount of every live handle is exactly 1 in every
\* reachable state, so in both modes a remove or remove_by_key of a live handle
\* removes it and returns Some(its layer), however many upload hits or gets
\* came before.
C37_RefCountStaysOne ==
    [][/\ \A h \in DOMAIN store' :
             h \in CacheIds(cache') /\ CacheRc(cache', h) = 1
       /\ (op'.name = "remove" /\ TargetOf(op') \in Live)
            => /\ ret' = RetSome(store[TargetOf(op')].layer)
               /\ TargetOf(op') \notin DOMAIN store']_vars

\* In ref-count mode a remove_by_key took its handle out at the first call
\* while the handles that stay were get-accessed and still count 1.
C37_Witness ==
    /\ use_ref_count
    /\ op.name = "remove"
    /\ op.by = "key"
    /\ ret.tag = "Some"
    /\ op.key \notin DOMAIN lookup
    /\ Live # {}
    /\ \A h \in Live : h \in last_used /\ CacheRc(cache, h) = 1

\* The rectangle a copy command reads (src) or writes (dst).
CopyRect(c, end) == [x |-> end.x, y |-> end.y, w |-> c.w, h |-> c.h]

\* The layers a defragment call may relocate into: those of task.avaliable
\* and the layers the call itself appends.
Destinations == SeqToSet(migration.avaliable) \cup (Len(layers)..(Len(layers') - 1))

\* C38: a defragment call relocates no handle into a layer whose migrating
\* flag is set nor into the layer it drains: every destination is a layer of
\* task.avaliable (or one the call appended to it), and no destination
\* rectangle of the call's copies overlaps a source rectangle of its copies.
C38_DestinationsAvailable ==
    [][(op'.name = "defragment" /\ ret' = RetOk(TRUE) /\ migration.some
          /\ migration.migrating # <<>>)
         => \A i \in 1..Len(gpu'.recorded) :
               LET c == gpu'.recorded[i] IN
               /\ c.dst.layer \in Destinations
               /\ c.dst.layer # DrainedLayer
               /\ c.dst.layer < Len(layers) => ~layers[c.dst.layer + 1].migrating
               /\ \A j \in 1..Len(gpu'.recorded) :
                     LET d == gpu'.recorded[j] IN
                     c.dst.layer = d.src.layer
                        => ~Overlap(CopyRect(c, c.dst), CopyRect(d, d.src))]_vars

=============================================================================
